---- MODULE Spec2Model ----
(***************************************************************************)
(* Model of vscode/src/services/LocalStorageProvider.ts: the LocalStorage  *)
(* singleton (account-keyed chat history over a key/value backend), the    *)
(* sync/async backend adapter convertToAsyncStore, and the chat-history    *)
(* migration migrateHistoryForChatModelProperty.                           *)
(*                                                                         *)
(* JavaScript values are represented as follows.                           *)
(*   - a string field that is missing is the sentinel Undefined; "" is the *)
(*     empty string; every other string is itself;                         *)
(*   - null and undefined objects are the records NullObj and UndefObj;    *)
(*   - an object whose identity matters (the store record, an assistant    *)
(*     message) carries a field ref: two objects are the same reference    *)
(*     iff they sit at the same place and have the same ref.  Objects read *)
(*     from the backend have ref ReadRef; an object allocated by a         *)
(*     migration pass has the ref that pass was given.                     *)
(***************************************************************************)
EXTENDS Integers, Sequences, FiniteSets, TLC

\* ------------------------------------------------------------------ bounds
\* longest transcript (number of interactions) of a migration input
MaxInteractions == 2
\* number of consecutive migration passes applied to one input
MaxPasses == 2
\* number of calls of LocalStorage's public operations in one run
MaxCalls == 2
\* number of backend calls that fail (throw or reject) in one run
MaxFaults == 1
\* number of chats the agent holds or creates in one run
MaxChats == 2
\* number of requests, and of messages, waiting at one time
MaxWaiting == 2

\* ------------------------------------------------------------ JS values
Undefined == "<undefined>"
NullObj == [js |-> "null"]
UndefObj == [js |-> "undefined"]

\* JS truthiness of a string-or-undefined value (`if (x)`)
Truthy(x) == x /= Undefined /\ x /= ""
\* `x ?? d`: d only when x is null or undefined
Coalesce(x, d) == IF x = Undefined THEN d ELSE x
\* JS truthiness of an object-or-null value
TruthyObj(x) == x /= NullObj /\ x /= UndefObj

\* what a function that threw a TypeError (a property read of undefined)
\* yields instead of a value
TypeError == [js |-> "TypeError"]

\* the ref of every object handed out by the backend's get
ReadRef == 1

\* ----------------------------------------------------------- data model
\* AccountKeyedChatHistory (lines 38-45) is [ref, accts]: accts maps each
\* account key present to its PersistedUserLocalHistory [chat |-> ...]; chat
\* is UndefObj when the partition has no `chat` field, else a map from the
\* chat ids present to a transcript (or NullObj).  A transcript is
\* [chatModel, interactions], or [chatModel] alone when the record has no
\* interactions; an interaction is [humanMessage,
\* assistantMessage], the assistant message a [ref, text, model] or NullObj.
HasInteractions(transcript) == "interactions" \in DOMAIN transcript
EmptyChat == << >>
EmptyHistory == [chat |-> EmptyChat]

SeqsUpTo(S, n) == UNION {[1..k -> S] : k \in 0..n}
MapsOver(K, V) == UNION {[D -> V] : D \in SUBSET K}

\* -------------------------------------------------------------- migration
\* mutant: the model is always the placeholder, the transcript's chatModel ignored
migrateAssistantMessage_placeholderOnly(assistantMessage, model, fresh) ==
    IF Truthy(assistantMessage.model)
    THEN [message |-> assistantMessage, neededMigration |-> 0]
    ELSE [message |-> [assistantMessage EXCEPT !.model = "unknown", !.ref = fresh],
          neededMigration |-> 1]

\* mutant: a message that has a model is copied instead of returned as is
migrateAssistantMessage_copies(assistantMessage, model, fresh) ==
    IF Truthy(assistantMessage.model)
    THEN [message |-> [assistantMessage EXCEPT !.ref = fresh], neededMigration |-> 0]
    ELSE [message |-> [assistantMessage EXCEPT !.model = Coalesce(model, "unknown"),
                                               !.ref = fresh],
          neededMigration |-> 1]

\* One call of the closure migrateAssistantMessage: the message it returns
\* and the increment it applies to the counter neededMigration.  `fresh` is
\* the ref of the object the spread `{...assistantMessage, model}` allocates.
migrateAssistantMessage(assistantMessage, model, fresh) ==
    IF Truthy(assistantMessage.model)
    THEN [message |-> assistantMessage, neededMigration |-> 0]
    ELSE [message |-> [assistantMessage EXCEPT !.model = Coalesce(model, "unknown"),
                                               !.ref = fresh],
          neededMigration |-> 1]

\* lines 312-321: the interaction with its assistant message migrated, or
\* null where there is none
migrateInteraction(interaction, chatModel, fresh) ==
    [interaction EXCEPT !.assistantMessage =
        IF TruthyObj(interaction.assistantMessage)
        THEN migrateAssistantMessage(interaction.assistantMessage, chatModel, fresh).message
        ELSE NullObj]

\* lines 308-324; `transcript.interactions.map` (line 311) throws when the
\* transcript has no interactions
migrateTranscript(transcript, fresh) ==
    IF ~TruthyObj(transcript) THEN transcript
    ELSE IF ~HasInteractions(transcript) THEN TypeError
    ELSE [transcript EXCEPT !.interactions =
            [i \in DOMAIN transcript.interactions |->
                migrateInteraction(transcript.interactions[i], transcript.chatModel, fresh)]]

\* lines 303-328; a throw in a transcript ends the whole map
migrateUserLocalHistory(userLocalHistory, fresh) ==
    IF TruthyObj(userLocalHistory.chat)
    THEN LET chat == [id \in DOMAIN userLocalHistory.chat |->
                        migrateTranscript(userLocalHistory.chat[id], fresh)]
         IN IF \E id \in DOMAIN chat : chat[id] = TypeError
            THEN TypeError
            ELSE [chat |-> chat]
    ELSE [chat |-> EmptyChat]

\* the places <<account, chat id, index>> of the assistant messages of a store
AssistantPlaces(history) ==
    {p \in UNION {UNION {{<<a, id, i>> : i \in
                            IF /\ TruthyObj(history.accts[a].chat[id])
                               /\ HasInteractions(history.accts[a].chat[id])
                            THEN DOMAIN history.accts[a].chat[id].interactions ELSE {}}
                         : id \in IF TruthyObj(history.accts[a].chat)
                                  THEN DOMAIN history.accts[a].chat ELSE {}}
                  : a \in DOMAIN history.accts} :
        TruthyObj(history.accts[p[1]].chat[p[2]].interactions[p[3]].assistantMessage)}

AssistantAt(history, p) == history.accts[p[1]].chat[p[2]].interactions[p[3]].assistantMessage
ChatModelAt(history, p) == history.accts[p[1]].chat[p[2]].chatModel

\* the value of the counter neededMigration (line 285) when the map of lines
\* 300-330 has run: one increment per call of migrateAssistantMessage that
\* took the second branch
neededMigration(history, fresh) ==
    Cardinality({p \in AssistantPlaces(history) :
        migrateAssistantMessage(AssistantAt(history, p), ChatModelAt(history, p),
                                fresh).neededMigration = 1})

migrateHistoryForChatModelProperty(history, fresh) ==
    IF ~TruthyObj(history) THEN NullObj
    ELSE LET accts == [a \in DOMAIN history.accts |->
                          migrateUserLocalHistory(history.accts[a], fresh)]
         IN IF \E a \in DOMAIN accts : accts[a] = TypeError
            THEN TypeError
            ELSE IF neededMigration(history, fresh) /= 0
            THEN [ref |-> fresh, accts |-> accts]
            ELSE history

\* ------------------------------------------------- migration: the inputs
ModelValues == {Undefined, "", "claude"}
ChatModelValues == {Undefined, "", "gpt-4"}
MigrationAccounts == {"e1-u1", "e1-u2"}
MigrationChatIDs == {"X"}

InputMessages == [ref : {ReadRef}, text : {"hi"}, model : ModelValues]
InputInteractions ==
    [humanMessage : {[text |-> "q"]}, assistantMessage : InputMessages \cup {NullObj}]
InputTranscripts ==
    [chatModel : ChatModelValues,
     interactions : SeqsUpTo(InputInteractions, MaxInteractions)]
        \cup [chatModel : ChatModelValues] \cup {NullObj}
\* a partition is {chat}, or {chat, input} as older versions stored it
InputPartitions ==
    [chat : MapsOver(MigrationChatIDs, InputTranscripts) \cup {UndefObj}]
        \cup [chat : MapsOver(MigrationChatIDs, InputTranscripts) \cup {UndefObj},
              input : {"i"}]
MigrationInputs ==
    {[ref |-> ReadRef, accts |-> m] : m \in MapsOver(MigrationAccounts, InputPartitions)}
        \cup {NullObj}

\* ---------------------------------------------------------------- state
VARIABLES
    mIn,      \* migration: the store given to the first pass
    mArg,     \* migration: the argument of the latest pass
    mOut,     \* migration: what the latest pass returned
    mCount,   \* migration: neededMigration at the end of the latest pass
    mPass,    \* migration: passes run so far
    storage,  \* LocalStorage._storage: "none", or the kind of backend wrapped
    disk,     \* the backend's content: key -> value (NullObj: no such key)
    pending,  \* asynchronous backend: writes issued and not yet applied
    calls,    \* caller -> the call of a public operation it made last
    started,  \* calls made so far
    nfaults,  \* backend calls that have failed so far
    chats,         \* ChatHistory: the component's state `chats`
    activeChatID,  \* web client: the id of the active chat, NoChatID if none
    mounted,       \* ChatHistory: its effects have run (first render done)
    agentChats,    \* agent: its list of chats
    nextChatID,    \* agent: the id the next chat created gets
    requests,      \* requests sent to the agent and not yet handled
    responses,     \* responses of the agent not yet delivered
    messages,      \* 'chatHistory' messages of the agent not yet delivered
    latest         \* the list of the agent's latest chat-list update, if any

mvars == <<mIn, mArg, mOut, mCount, mPass>>
svars == <<storage, disk, pending, calls, started, nfaults>>
cvars ==
    <<chats, activeChatID, mounted, agentChats, nextChatID, requests, responses,
      messages, latest>>
vars ==
    <<mIn, mArg, mOut, mCount, mPass, storage, disk, pending, calls, started, nfaults,
      chats, activeChatID, mounted, agentChats, nextChatID, requests, responses,
      messages, latest>>

\* no chat is active
NoChatID == 0
\* the ChatHistory component is not rendered and the agent has no chat
ChatHistoryUnmounted ==
    /\ chats = << >>
    /\ activeChatID = NoChatID
    /\ mounted = FALSE
    /\ agentChats = << >>
    /\ nextChatID = 1
    /\ requests = << >>
    /\ responses = << >>
    /\ messages = << >>
    /\ latest = << >>

\* --------------------------------------------- specification: migration
MigrationInit ==
    /\ mIn \in MigrationInputs
    /\ mArg = NullObj
    /\ mOut = NullObj
    /\ mCount = 0
    /\ mPass = 0
    /\ storage = "none"
    /\ disk = << >>
    /\ pending = << >>
    /\ calls = << >>
    /\ started = 0
    /\ nfaults = 0
    /\ ChatHistoryUnmounted

\* One call of migrateHistoryForChatModelProperty: the first on mIn, each
\* later one on what the pass before returned.
MigratePass ==
    /\ mPass < MaxPasses
    /\ mPass = 0 \/ mOut /= TypeError
    /\ LET arg == IF mPass = 0 THEN mIn ELSE mOut
           fresh == ReadRef + mPass + 1
       IN /\ mArg' = arg
          /\ mOut' = migrateHistoryForChatModelProperty(arg, fresh)
          /\ mCount' = IF TruthyObj(arg) /\ migrateHistoryForChatModelProperty(arg, fresh) /= TypeError
                       THEN neededMigration(arg, fresh) ELSE 0
    /\ mPass' = mPass + 1
    /\ UNCHANGED <<mIn, svars, cvars>>

MigrationNext == MigratePass

SpecMigration == MigrationInit /\ [][MigrationNext]_vars

\* ------------------------------------------------------- LocalStorage: data
KEY_LOCAL_HISTORY == "cody-local-chatHistory-v2"
KEY_CONFIG == "cody-config"
CODY_ENROLLMENT_HISTORY == "SOURCEGRAPH_CODY_ENROLLMENTS"
ANONYMOUS_USER_ID_KEY == "sourcegraphAnonymousUid"
Keys == {KEY_LOCAL_HISTORY, KEY_CONFIG, CODY_ENROLLMENT_HISTORY, ANONYMOUS_USER_ID_KEY}

\* the callers whose calls may overlap; a call is made by the first caller
\* that has none in flight
Callers == {1, 2}

\* the accounts that sign in, and the key their history is stored under
AuthStatuses ==
    {[endpoint |-> "e1", username |-> "u1"], [endpoint |-> "e1", username |-> "u2"]}
getKeyForAuthStatus(authStatus) == authStatus.endpoint \o "-" \o authStatus.username

ChatIDs == {"X", "Y"}

\* What the backend holds for a value written: a serialised copy, so that
\* every object a later get hands out is a new one (ref ReadRef).
StoredMessage(m) == IF TruthyObj(m) THEN [m EXCEPT !.ref = ReadRef] ELSE m
StoredInteraction(i) == [i EXCEPT !.assistantMessage = StoredMessage(i.assistantMessage)]
StoredTranscript(t) ==
    IF TruthyObj(t) /\ HasInteractions(t)
    THEN [t EXCEPT !.interactions =
            [i \in DOMAIN t.interactions |-> StoredInteraction(t.interactions[i])]]
    ELSE t
StoredPartition(u) ==
    [u EXCEPT !.chat = IF TruthyObj(u.chat)
                       THEN [id \in DOMAIN u.chat |-> StoredTranscript(u.chat[id])]
                       ELSE u.chat]
Stored(h) ==
    IF TruthyObj(h) /\ "accts" \in DOMAIN h
    THEN [ref |-> ReadRef, accts |-> [a \in DOMAIN h.accts |-> StoredPartition(h.accts[a])]]
    ELSE h

\* transcripts of the three kinds a stored history can hold
Message(model) == [ref |-> ReadRef, text |-> "hi", model |-> model]
Interaction(model) == [humanMessage |-> [text |-> "q"], assistantMessage |-> Message(model)]
LegacyTranscript == [chatModel |-> "gpt-4", interactions |-> <<Interaction(Undefined)>>]
CurrentTranscript == [chatModel |-> Undefined, interactions |-> <<Interaction("claude")>>]
EmptyModelTranscript == [chatModel |-> "", interactions |-> <<Interaction(Undefined)>>]
MalformedTranscript == [chatModel |-> "gpt-4"]

U1 == "e1-u1"
U2 == "e1-u2"
StoreOf(accts) == [ref |-> ReadRef, accts |-> accts]

\* the content of the history key when the extension starts
InitialStores ==
    { NullObj,
      StoreOf((U1 :> [chat |-> ("X" :> LegacyTranscript @@ "Y" :> CurrentTranscript)])
              @@ (U2 :> [chat |-> ("X" :> LegacyTranscript)])),
      StoreOf((U1 :> [chat |-> ("X" :> CurrentTranscript @@ "Y" :> CurrentTranscript)])
              @@ (U2 :> [chat |-> ("Y" :> CurrentTranscript)])),
      StoreOf((U1 :> [chat |-> ("X" :> CurrentTranscript @@ "Y" :> CurrentTranscript)])
              @@ (U2 :> [chat |-> ("X" :> LegacyTranscript)])),
      StoreOf(U1 :> [chat |-> ("X" :> CurrentTranscript)]),
      StoreOf((U1 :> [chat |-> ("X" :> EmptyModelTranscript)])
              @@ (U2 :> [chat |-> ("Y" :> CurrentTranscript)])),
      StoreOf((U1 :> [chat |-> UndefObj])
              @@ (U2 :> [chat |-> ("Y" :> CurrentTranscript)])),
      StoreOf((U1 :> [chat |-> ("X" :> MalformedTranscript)])
              @@ (U2 :> [chat |-> ("Y" :> CurrentTranscript)])) }

\* the histories callers hand to setChatHistory
HistoryArgs ==
    { [chat |-> ("Y" :> CurrentTranscript)],
      [chat |-> ("X" :> CurrentTranscript @@ "Y" :> LegacyTranscript)] }

\* mutant: removeChatHistory hands setChatHistory a history that still has a chat
removeChatHistoryArg_keepsChat == [chat |-> ("X" :> CurrentTranscript)]

\* line 191: the history removeChatHistory hands to setChatHistory
removeChatHistoryArg == EmptyHistory

ConfigValue == [config |-> "c"]

\* the enrollment history is an array of feature names, here [items |-> seq]
FeatureNames == {"f", "g"}
NoEnrollments == [items |-> << >>]
\* line 207: get(CODY_ENROLLMENT_HISTORY, []), the default for a missing key
enrollmentsRead(value) == IF value = NullObj THEN NoEnrollments ELSE value
\* line 208: history.includes(featureName)
includes(history, featureName) ==
    \E i \in DOMAIN history.items : history.items[i] = featureName
\* line 212: history.push(featureName)
push(history, featureName) == [items |-> Append(history.items, featureName)]

\* lines 153-159: the store setChatHistory writes
setFullHistory_replacesStore(fullHistory, key, history) ==
    StoreOf(key :> history)

\* mutant: an entry the store already has is kept, the new history dropped
setFullHistory_keepsEntry(fullHistory, key, history) ==
    IF TruthyObj(fullHistory)
    THEN [fullHistory EXCEPT !.accts = fullHistory.accts @@ (key :> history)]
    ELSE StoreOf(key :> history)

setFullHistory(fullHistory, key, history) ==
    IF TruthyObj(fullHistory)
    THEN [fullHistory EXCEPT !.accts = (key :> history) @@ fullHistory.accts]
    ELSE StoreOf(key :> history)

\* line 142: migratedHistory?.[accountKey] ?? { chat: {} }
accountHistoryOf_noDefault(migratedHistory, accountKey) ==
    IF TruthyObj(migratedHistory) /\ accountKey \in DOMAIN migratedHistory.accts
    THEN migratedHistory.accts[accountKey]
    ELSE UndefObj

accountHistoryOf(migratedHistory, accountKey) ==
    IF TruthyObj(migratedHistory) /\ accountKey \in DOMAIN migratedHistory.accts
    THEN migratedHistory.accts[accountKey]
    ELSE EmptyHistory

\* mutant: every chat is removed, not only chatID
deleteChat_clearsAll(chat, chatID) == << >>

\* line 171: delete userHistory.chat[chatID]
deleteChat(chat, chatID) == [id \in (DOMAIN chat) \ {chatID} |-> chat[id]]

\* lines 137-138: the migration getChatHistory runs on what it read
migrateRead_alwaysNew(history) ==
    IF ~TruthyObj(history) THEN NullObj
    ELSE [ref |-> ReadRef + 1,
          accts |-> [a \in DOMAIN history.accts |->
                        migrateUserLocalHistory(history.accts[a], ReadRef + 1)]]

migrateRead(history) == migrateHistoryForChatModelProperty(history, ReadRef + 1)

\* ------------------------------------------------ LocalStorage: the calls
NoRead == [st |-> "none", key |-> "", value |-> UndefObj]

\* what a caller remembers of the call it made before: which operation, on
\* what, and how it ended
NoPrev ==
    [ op |-> "idle", init |-> FALSE, auth |-> << >>, chatID |-> "", arg |-> UndefObj,
      outcome |-> "none" ]
PrevOf(call) == [f \in DOMAIN NoPrev |-> call[f]]

IdleCall ==
    [ id |-> 0, op |-> "idle", pc |-> "idle", init |-> FALSE,
      auth |-> << >>, chatID |-> "", arg |-> UndefObj,
      rd |-> NoRead, history |-> UndefObj, fullHistory |-> UndefObj,
      userHistory |-> UndefObj,
      outcome |-> "none", error |-> "", result |-> UndefObj,
      logged |-> 0, faults |-> {}, writes |-> << >>,
      before |-> UndefObj, alone |-> FALSE, prev |-> NoPrev ]

InFlight(d) == calls[d].pc \notin {"idle", "done"}

\* a new call by caller c: its record at the operation's first statement
NewCall(c, op, auth, chatID, arg) ==
    [ IdleCall EXCEPT
        !.id = started + 1, !.op = op, !.pc = "start", !.init = (storage /= "none"),
        !.auth = auth, !.chatID = chatID, !.arg = arg,
        !.before = disk[KEY_LOCAL_HISTORY], !.prev = PrevOf(calls[c]),
        !.alone = (pending = << >>) /\ (\A d \in Callers \ {c} : ~InFlight(d)) ]

\* the calls once caller c has made (or continued) its call
WithCall(c, call) ==
    [d \in Callers |-> IF d = c THEN call ELSE calls[d]]
WithNewCall(c, call) ==
    [d \in Callers |-> IF d = c THEN call ELSE [calls[d] EXCEPT !.alone = FALSE]]

\* the operation returns, throws, or its promise settles
Finish(call, outcome, error, result) ==
    [call EXCEPT !.pc = "done", !.outcome = outcome, !.error = error, !.result = result]
\* lines 162-164 and alike: catch (error) { console.error(error) }, then return
CaughtAndLogged(call) ==
    Finish([call EXCEPT !.logged = @ + 1], "resolved", "", UndefObj)
Faulted(call, fault) == [call EXCEPT !.faults = @ \cup {fault}]

\* ------------------------------------------------- the backend, adapted
\* How a call of the backend's get or update ends at once: it returns, or it
\* throws.  A synchronous backend's update may also return a promise that
\* rejects; an asynchronous backend's promises settle later
\* (BackendServeRead, BackendApplyWrite).
MayFail == nfaults < MaxFaults
GetEnds == IF MayFail THEN {"ok", "throws"} ELSE {"ok"}
UpdateEnds ==
    IF ~MayFail THEN {"ok"}
    ELSE IF storage = "sync" THEN {"ok", "throws", "rejects"} ELSE {"ok", "throws"}
Settles == IF MayFail THEN BOOLEAN ELSE {TRUE}
\* the faults caller c's call has met that it had not met before this step
NewFaults(c, old) == Cardinality(calls'[c].faults \ old)

\* lines 27-29: what `await this.storage.get(key, null)` waits for
ReadIssued(key) ==
    IF storage = "sync"
    THEN [st |-> "ready", key |-> key, value |-> disk[key]]
    ELSE [st |-> "inflight", key |-> key, value |-> UndefObj]

\* lines 30-34: store.update(key, value) is called and its promise dropped;
\* the adapter's own promise is already resolved
\* mutant: the adapter returns its promise without calling store.update
DiskAfterUpdate_notCalled(end, key, value) == disk

DiskAfterUpdate(end, key, value) ==
    IF storage = "sync" /\ end = "ok" THEN [disk EXCEPT ![key] = Stored(value)] ELSE disk
PendingAfterUpdate(end, key, value, call) ==
    IF storage = "async" /\ end = "ok"
    THEN Append(pending, [key |-> key, value |-> Stored(value), caller |-> call.id])
    ELSE pending
\* the call once it has called update: the write it issued, the fault it met
AfterUpdate(call, end, key, value) ==
    LET w == [call EXCEPT !.writes = Append(@, [key |-> key, value |-> Stored(value)])]
    IN IF end = "ok" THEN w ELSE Faulted(w, "update." \o end)

\* --------------------------------------------------- operations, by part
\* getChatHistory up to its first await (lines 127-131); also the start of
\* deleteChatHistory (line 168)
GchPrefix(call, end) ==
    IF storage = "none"
    THEN Finish(call, "rejected", "NotInitialized", UndefObj)
    ELSE IF end = "throws"
    THEN Finish(Faulted(call, "get.throws"), "rejected", "BackendError", UndefObj)
    ELSE [call EXCEPT !.pc = "gch.get", !.rd = ReadIssued(KEY_LOCAL_HISTORY)]

\* setChatHistory up to its first await (lines 145-151), inside its try
SchPrefix(call, end) ==
    IF storage = "none"
    THEN CaughtAndLogged(call)
    ELSE IF end = "throws"
    THEN CaughtAndLogged(Faulted(call, "get.throws"))
    ELSE [call EXCEPT !.pc = "sch.get", !.rd = ReadIssued(KEY_LOCAL_HISTORY)]

\* --------------------------------------------------------------- actions
StorageInit ==
    /\ storage = "none"
    /\ disk \in {[k \in Keys |-> IF k = KEY_LOCAL_HISTORY THEN h ELSE NullObj] :
                    h \in InitialStores}
    /\ pending = << >>
    /\ calls = [c \in Callers |-> IdleCall]
    /\ started = 0
    /\ nfaults = 0
    /\ mIn = NullObj /\ mArg = NullObj /\ mOut = NullObj /\ mCount = 0 /\ mPass = 0
    /\ ChatHistoryUnmounted

\* lines 72-76, called once on extension activation (line 58)
setStorage(kind) ==
    /\ storage = "none"
    /\ storage' = kind
    /\ UNCHANGED <<disk, pending, calls, started, nfaults, mvars, cvars>>

CanCall(c) ==
    /\ ~InFlight(c)
    /\ \A d \in Callers : d < c => InFlight(d)
    /\ started < MaxCalls

\* lines 127-131
CallGetChatHistory(c, authStatus) ==
    /\ CanCall(c)
    /\ \E end \in GetEnds :
          calls' = WithNewCall(c, GchPrefix(
                      NewCall(c, "getChatHistory", authStatus, "", UndefObj), end))
    /\ started' = started + 1
    /\ nfaults' = nfaults + NewFaults(c, {})
    /\ UNCHANGED <<storage, disk, pending, mvars, cvars>>

\* lines 145-151
CallSetChatHistory(c, authStatus, history) ==
    /\ CanCall(c)
    /\ \E end \in GetEnds :
          calls' = WithNewCall(c, SchPrefix(
                      NewCall(c, "setChatHistory", authStatus, "", history), end))
    /\ started' = started + 1
    /\ nfaults' = nfaults + NewFaults(c, {})
    /\ UNCHANGED <<storage, disk, pending, mvars, cvars>>

\* lines 189-191
CallRemoveChatHistory(c, authStatus) ==
    /\ CanCall(c)
    /\ \E end \in GetEnds :
          calls' = WithNewCall(c, SchPrefix(
                      NewCall(c, "removeChatHistory", authStatus, "",
                              removeChatHistoryArg), end))
    /\ started' = started + 1
    /\ nfaults' = nfaults + NewFaults(c, {})
    /\ UNCHANGED <<storage, disk, pending, mvars, cvars>>

\* lines 167-168
CallDeleteChatHistory(c, authStatus, chatID) ==
    /\ CanCall(c)
    /\ \E end \in GetEnds :
          calls' = WithNewCall(c, GchPrefix(
                      NewCall(c, "deleteChatHistory", authStatus, chatID, UndefObj), end))
    /\ started' = started + 1
    /\ nfaults' = nfaults + NewFaults(c, {})
    /\ UNCHANGED <<storage, disk, pending, mvars, cvars>>

\* lines 132-143: getChatHistory once the read has settled
ResumeGetChatHistory(c) ==
    LET call == calls[c] IN
    /\ call.pc = "gch.get"
    /\ call.rd.st \in {"ready", "failed"}
    /\ IF call.rd.st = "failed"
       THEN /\ calls' = WithCall(c, Finish(call, "rejected", "BackendError", UndefObj))
            /\ UNCHANGED <<disk, pending>>
       ELSE LET history == call.rd.value
                accountKey == getKeyForAuthStatus(call.auth)
                migratedHistory == migrateRead(history)
                read == [call EXCEPT !.history = history, !.rd = NoRead]
                returned(cl) ==
                    LET userHistory == accountHistoryOf(migratedHistory, accountKey)
                    IN IF cl.op = "getChatHistory"
                       THEN Finish(cl, "resolved", "", userHistory)
                       ELSE [cl EXCEPT !.pc = "dch.gch", !.userHistory = userHistory]
            IN IF migratedHistory = TypeError
               THEN /\ calls' = WithCall(c, Finish(read, "rejected", "TypeError", UndefObj))
                    /\ UNCHANGED <<disk, pending>>
               ELSE IF history /= migratedHistory
               THEN \E end \in UpdateEnds :
                      LET wrote == AfterUpdate(read, end, KEY_LOCAL_HISTORY, migratedHistory)
                      IN /\ disk' = DiskAfterUpdate(end, KEY_LOCAL_HISTORY, migratedHistory)
                         /\ pending' = PendingAfterUpdate(end, KEY_LOCAL_HISTORY,
                                                          migratedHistory, call)
                         /\ calls' = WithCall(c,
                                IF end = "throws"
                                THEN Finish(wrote, "rejected", "BackendError", UndefObj)
                                ELSE returned(wrote))
               ELSE /\ calls' = WithCall(c, returned(read))
                    /\ UNCHANGED <<disk, pending>>
    /\ nfaults' = nfaults + NewFaults(c, calls[c].faults)
    /\ UNCHANGED <<storage, started, mvars, cvars>>

\* lines 169-176: deleteChatHistory once getChatHistory has returned
ResumeDeleteChatHistory(c) ==
    LET call == calls[c] IN
    /\ call.pc = "dch.gch"
    /\ IF ~TruthyObj(call.userHistory)
       THEN calls' = WithCall(c, Finish(call, "resolved", "", UndefObj))
       ELSE IF ~TruthyObj(call.userHistory.chat)
       THEN calls' = WithCall(c, CaughtAndLogged(call))
       ELSE \E end \in GetEnds :
               calls' = WithCall(c, SchPrefix(
                  [call EXCEPT !.arg = [call.userHistory EXCEPT
                                          !.chat = deleteChat(@, call.chatID)]], end))
    /\ nfaults' = nfaults + NewFaults(c, calls[c].faults)
    /\ UNCHANGED <<storage, disk, pending, started, mvars, cvars>>

\* lines 153-161: setChatHistory once the read has settled
ResumeSetChatHistoryGet(c) ==
    LET call == calls[c] IN
    /\ call.pc = "sch.get"
    /\ call.rd.st \in {"ready", "failed"}
    /\ IF call.rd.st = "failed"
       THEN /\ calls' = WithCall(c, CaughtAndLogged(call))
            /\ UNCHANGED <<disk, pending>>
       ELSE LET key == getKeyForAuthStatus(call.auth)
                fullHistory == setFullHistory(call.rd.value, key, call.arg)
                read == [call EXCEPT !.fullHistory = call.rd.value, !.rd = NoRead]
            IN \E end \in UpdateEnds :
                  LET wrote == AfterUpdate(read, end, KEY_LOCAL_HISTORY, fullHistory)
                  IN /\ disk' = DiskAfterUpdate(end, KEY_LOCAL_HISTORY, fullHistory)
                     /\ pending' = PendingAfterUpdate(end, KEY_LOCAL_HISTORY,
                                                      fullHistory, call)
                     /\ calls' = WithCall(c,
                            IF end = "throws"
                            THEN CaughtAndLogged(wrote)
                            ELSE [wrote EXCEPT !.pc = "sch.update"])
    /\ nfaults' = nfaults + NewFaults(c, calls[c].faults)
    /\ UNCHANGED <<storage, started, mvars, cvars>>

\* lines 161-165: the adapter's promise has resolved; setChatHistory returns
\* (and with it removeChatHistory, deleteChatHistory)
ResumeSetChatHistoryUpdate(c) ==
    /\ calls[c].pc = "sch.update"
    /\ calls' = WithCall(c, Finish(calls[c], "resolved", "", UndefObj))
    /\ UNCHANGED <<storage, disk, pending, started, nfaults, mvars, cvars>>

\* lines 246-248: get(key), not an async function
CallGet(c) ==
    /\ CanCall(c)
    /\ \E end \in GetEnds :
          LET call == NewCall(c, "get", << >>, "", UndefObj)
          IN calls' = WithNewCall(c,
                IF storage = "none" THEN Finish(call, "threw", "NotInitialized", UndefObj)
                ELSE IF end = "throws"
                THEN Finish(Faulted(call, "get.throws"), "threw", "BackendError", UndefObj)
                ELSE IF storage = "sync"
                THEN Finish(call, "resolved", "", disk[KEY_CONFIG])
                ELSE [call EXCEPT !.pc = "kv.get", !.rd = ReadIssued(KEY_CONFIG)])
    /\ started' = started + 1
    /\ nfaults' = nfaults + NewFaults(c, {})
    /\ UNCHANGED <<storage, disk, pending, mvars, cvars>>

\* the promise get(key) returned settles
ResumeGet(c) ==
    LET call == calls[c] IN
    /\ call.pc = "kv.get"
    /\ call.rd.st \in {"ready", "failed"}
    /\ calls' = WithCall(c,
          IF call.rd.st = "failed"
          THEN Finish(call, "rejected", "BackendError", UndefObj)
          ELSE Finish([call EXCEPT !.rd = NoRead], "resolved", "", call.rd.value))
    /\ UNCHANGED <<storage, disk, pending, started, nfaults, mvars, cvars>>

\* lines 250-256: set(key, value)
CallSet(c) ==
    /\ CanCall(c)
    /\ LET call == NewCall(c, "set", << >>, "", ConfigValue)
       IN IF storage = "none"
          THEN /\ calls' = WithNewCall(c, CaughtAndLogged(call))
               /\ UNCHANGED <<disk, pending>>
          ELSE \E end \in UpdateEnds :
                  LET wrote == AfterUpdate(call, end, KEY_CONFIG, ConfigValue)
                  IN /\ disk' = DiskAfterUpdate(end, KEY_CONFIG, ConfigValue)
                     /\ pending' = PendingAfterUpdate(end, KEY_CONFIG, ConfigValue, call)
                     /\ calls' = WithNewCall(c,
                            IF end = "throws" THEN CaughtAndLogged(wrote)
                            ELSE [wrote EXCEPT !.pc = "kv.update"])
    /\ started' = started + 1
    /\ nfaults' = nfaults + NewFaults(c, {})
    /\ UNCHANGED <<storage, mvars, cvars>>

\* lines 258-260: delete(key)
CallDelete(c) ==
    /\ CanCall(c)
    /\ LET call == NewCall(c, "delete", << >>, "", UndefObj)
       IN IF storage = "none"
          THEN /\ calls' = WithNewCall(c,
                      Finish(call, "rejected", "NotInitialized", UndefObj))
               /\ UNCHANGED <<disk, pending>>
          ELSE \E end \in UpdateEnds :
                  LET wrote == AfterUpdate(call, end, KEY_CONFIG, NullObj)
                  IN /\ disk' = DiskAfterUpdate(end, KEY_CONFIG, NullObj)
                     /\ pending' = PendingAfterUpdate(end, KEY_CONFIG, NullObj, call)
                     /\ calls' = WithNewCall(c,
                            IF end = "throws"
                            THEN Finish(wrote, "rejected", "BackendError", UndefObj)
                            ELSE [wrote EXCEPT !.pc = "kv.update"])
    /\ started' = started + 1
    /\ nfaults' = nfaults + NewFaults(c, {})
    /\ UNCHANGED <<storage, mvars, cvars>>

\* set / delete once the adapter's promise has resolved
ResumeUpdate(c) ==
    /\ calls[c].pc = "kv.update"
    /\ calls' = WithCall(c, Finish(calls[c], "resolved", "", UndefObj))
    /\ UNCHANGED <<storage, disk, pending, started, nfaults, mvars, cvars>>

\* lines 206-207: getEnrollmentHistory up to its await
CallGetEnrollmentHistory(c, featureName) ==
    /\ CanCall(c)
    /\ \E end \in GetEnds :
          LET call == NewCall(c, "getEnrollmentHistory", << >>, "",
                              [featureName |-> featureName])
          IN calls' = WithNewCall(c,
                IF storage = "none"
                THEN Finish(call, "rejected", "NotInitialized", UndefObj)
                ELSE IF end = "throws"
                THEN Finish(Faulted(call, "get.throws"), "rejected", "BackendError", UndefObj)
                ELSE [call EXCEPT !.pc = "geh.get",
                                  !.rd = ReadIssued(CODY_ENROLLMENT_HISTORY)])
    /\ started' = started + 1
    /\ nfaults' = nfaults + NewFaults(c, {})
    /\ UNCHANGED <<storage, disk, pending, mvars, cvars>>

\* lines 208-216: getEnrollmentHistory once the read has settled
ResumeGetEnrollmentHistory(c) ==
    LET call == calls[c] IN
    /\ call.pc = "geh.get"
    /\ call.rd.st \in {"ready", "failed"}
    /\ IF call.rd.st = "failed"
       THEN /\ calls' = WithCall(c, Finish(call, "rejected", "BackendError", UndefObj))
            /\ UNCHANGED <<disk, pending>>
       ELSE LET history == enrollmentsRead(call.rd.value)
                featureName == call.arg.featureName
                hasEnrolled == includes(history, featureName)
                read == [call EXCEPT !.history = history, !.rd = NoRead]
            IN IF ~hasEnrolled
               THEN \E end \in UpdateEnds :
                      LET pushed == push(history, featureName)
                          wrote == AfterUpdate(read, end, CODY_ENROLLMENT_HISTORY, pushed)
                      IN /\ disk' = DiskAfterUpdate(end, CODY_ENROLLMENT_HISTORY, pushed)
                         /\ pending' = PendingAfterUpdate(end, CODY_ENROLLMENT_HISTORY,
                                                          pushed, call)
                         /\ calls' = WithCall(c,
                                IF end = "throws"
                                THEN Finish(wrote, "rejected", "BackendError", UndefObj)
                                ELSE Finish(wrote, "resolved", "", [value |-> hasEnrolled]))
               ELSE /\ calls' = WithCall(c, Finish(read, "resolved", "",
                                                   [value |-> hasEnrolled]))
                    /\ UNCHANGED <<disk, pending>>
    /\ nfaults' = nfaults + NewFaults(c, calls[c].faults)
    /\ UNCHANGED <<storage, started, mvars, cvars>>

\* line 228: uuid.v4(), a new identifier at every call; the stored string is
\* [id |-> n], n the number of the call that made it (0: made in an earlier
\* session)
uuidv4(call) == [id |-> call.id]

\* lines 223-224: anonymousUserID up to its first await
CallAnonymousUserID(c) ==
    /\ CanCall(c)
    /\ \E end \in GetEnds :
          LET call == NewCall(c, "anonymousUserID", << >>, "", UndefObj)
          IN calls' = WithNewCall(c,
                IF storage = "none"
                THEN Finish(call, "rejected", "NotInitialized", UndefObj)
                ELSE IF end = "throws"
                THEN Finish(Faulted(call, "get.throws"), "rejected", "BackendError", UndefObj)
                ELSE [call EXCEPT !.pc = "auid.get",
                                  !.rd = ReadIssued(ANONYMOUS_USER_ID_KEY)])
    /\ started' = started + 1
    /\ nfaults' = nfaults + NewFaults(c, {})
    /\ UNCHANGED <<storage, disk, pending, mvars, cvars>>

\* lines 225-235: anonymousUserID once the read has settled
ResumeAnonymousUserIDGet(c) ==
    LET call == calls[c] IN
    /\ call.pc = "auid.get"
    /\ call.rd.st \in {"ready", "failed"}
    /\ IF call.rd.st = "failed"
       THEN /\ calls' = WithCall(c, Finish(call, "rejected", "BackendError", UndefObj))
            /\ UNCHANGED <<disk, pending>>
       ELSE LET id == call.rd.value
                read == [call EXCEPT !.history = id, !.rd = NoRead]
            IN IF ~TruthyObj(id)
               THEN \E end \in UpdateEnds :
                      LET made == uuidv4(call)
                          wrote == AfterUpdate(read, end, ANONYMOUS_USER_ID_KEY, made)
                          answer == [anonymousUserID |-> made, created |-> TRUE]
                      IN /\ disk' = DiskAfterUpdate(end, ANONYMOUS_USER_ID_KEY, made)
                         /\ pending' = PendingAfterUpdate(end, ANONYMOUS_USER_ID_KEY,
                                                          made, call)
                         /\ calls' = WithCall(c,
                                IF end = "throws"
                                THEN Finish([wrote EXCEPT !.logged = @ + 1],
                                            "resolved", "", answer)
                                ELSE [wrote EXCEPT !.pc = "auid.update",
                                                   !.userHistory = answer])
               ELSE /\ calls' = WithCall(c, Finish(read, "resolved", "",
                                    [anonymousUserID |-> id, created |-> FALSE]))
                    /\ UNCHANGED <<disk, pending>>
    /\ nfaults' = nfaults + NewFaults(c, calls[c].faults)
    /\ UNCHANGED <<storage, started, mvars, cvars>>

\* line 235: the adapter's promise has resolved; anonymousUserID returns
ResumeAnonymousUserIDUpdate(c) ==
    /\ calls[c].pc = "auid.update"
    /\ calls' = WithCall(c, Finish([calls[c] EXCEPT !.userHistory = UndefObj],
                                   "resolved", "", calls[c].userHistory))
    /\ UNCHANGED <<storage, disk, pending, started, nfaults, mvars, cvars>>

\* The asynchronous backend settles the promise its get returned: with the
\* value it holds now, or by rejecting.
BackendServeRead(c) ==
    LET call == calls[c] IN
    /\ storage = "async"
    /\ call.rd.st = "inflight"
    /\ \E ok \in Settles :
          calls' = WithCall(c,
             IF ok THEN [call EXCEPT !.rd = [st |-> "ready", key |-> call.rd.key,
                                             value |-> disk[call.rd.key]]]
             ELSE Faulted([call EXCEPT !.rd = [st |-> "failed", key |-> call.rd.key,
                                               value |-> UndefObj]], "get.rejects"))
    /\ nfaults' = nfaults + NewFaults(c, calls[c].faults)
    /\ UNCHANGED <<storage, disk, pending, started, mvars, cvars>>

\* The asynchronous backend applies the oldest write issued, or rejects it;
\* the promise of store.update was dropped at line 31, so nobody is told.
BackendApplyWrite ==
    /\ storage = "async"
    /\ pending /= << >>
    /\ LET w == Head(pending)
       IN \E ok \in Settles :
             /\ nfaults' = IF ok THEN nfaults ELSE nfaults + 1
             /\ disk' = IF ok THEN [disk EXCEPT ![w.key] = w.value] ELSE disk
             /\ calls' = [d \in Callers |->
                            IF ~ok /\ calls[d].id = w.caller
                            THEN Faulted(calls[d], "update.rejects") ELSE calls[d]]
    /\ pending' = Tail(pending)
    /\ UNCHANGED <<storage, started, mvars, cvars>>

\* a step of the program whose calls are made by the callers in CS
NextOf(CS) ==
    \/ \E kind \in {"sync", "async"} : setStorage(kind)
    \/ \E c \in CS, a \in AuthStatuses : CallGetChatHistory(c, a)
    \/ \E c \in CS, a \in AuthStatuses, h \in HistoryArgs : CallSetChatHistory(c, a, h)
    \/ \E c \in CS, a \in AuthStatuses, id \in ChatIDs : CallDeleteChatHistory(c, a, id)
    \/ \E c \in CS, a \in AuthStatuses : CallRemoveChatHistory(c, a)
    \/ \E c \in CS : CallGet(c)
    \/ \E c \in CS : CallSet(c)
    \/ \E c \in CS : CallDelete(c)
    \/ \E c \in CS : ResumeGetChatHistory(c)
    \/ \E c \in CS : ResumeDeleteChatHistory(c)
    \/ \E c \in CS : ResumeSetChatHistoryGet(c)
    \/ \E c \in CS : ResumeSetChatHistoryUpdate(c)
    \/ \E c \in CS : ResumeGet(c)
    \/ \E c \in CS : ResumeUpdate(c)
    \/ \E c \in CS : BackendServeRead(c)
    \/ BackendApplyWrite

\* calls that may overlap
Next == NextOf(Callers)
\* one caller, who awaits each call before making the next
NextSequential == NextOf({1})

\* two callers who only call setChatHistory, their calls free to overlap
NextConcurrentSet ==
    \/ \E kind \in {"sync", "async"} : setStorage(kind)
    \/ \E c \in Callers, a \in AuthStatuses, h \in HistoryArgs : CallSetChatHistory(c, a, h)
    \/ \E c \in Callers : ResumeSetChatHistoryGet(c)
    \/ \E c \in Callers : ResumeSetChatHistoryUpdate(c)
    \/ \E c \in Callers : BackendServeRead(c)
    \/ BackendApplyWrite

\* accounts whose endpoint or username holds the separator of the key
HyphenAuthStatuses ==
    {[endpoint |-> "e1", username |-> "u1"],
     [endpoint |-> "e1-u1", username |-> "x"],
     [endpoint |-> "e1", username |-> "u1-x"]}

\* one caller reading and writing the histories of those accounts
NextAccountKeys ==
    \/ \E kind \in {"sync", "async"} : setStorage(kind)
    \/ \E a \in HyphenAuthStatuses : CallGetChatHistory(1, a)
    \/ \E a \in HyphenAuthStatuses, h \in HistoryArgs : CallSetChatHistory(1, a, h)
    \/ ResumeGetChatHistory(1)
    \/ ResumeSetChatHistoryGet(1)
    \/ ResumeSetChatHistoryUpdate(1)
    \/ BackendServeRead(1)
    \/ BackendApplyWrite

\* the storage when only the enrollment history matters: no chat history,
\* no enrollment yet or one of another feature
EnrollmentInit ==
    /\ storage = "none"
    /\ disk \in {[k \in Keys |-> IF k = CODY_ENROLLMENT_HISTORY THEN e ELSE NullObj] :
                    e \in {NullObj, [items |-> <<"g">>]}}
    /\ pending = << >>
    /\ calls = [c \in Callers |-> IdleCall]
    /\ started = 0
    /\ nfaults = 0
    /\ mIn = NullObj /\ mArg = NullObj /\ mOut = NullObj /\ mCount = 0 /\ mPass = 0
    /\ ChatHistoryUnmounted

\* callers who only call getEnrollmentHistory, their calls free to overlap
NextEnrollment ==
    \/ \E kind \in {"sync", "async"} : setStorage(kind)
    \/ \E c \in Callers, f \in FeatureNames : CallGetEnrollmentHistory(c, f)
    \/ \E c \in Callers : ResumeGetEnrollmentHistory(c)
    \/ \E c \in Callers : BackendServeRead(c)
    \/ BackendApplyWrite

\* one caller who sets histories, the empty one among them, and removes them
NextSetOrRemove ==
    \/ \E kind \in {"sync", "async"} : setStorage(kind)
    \/ \E a \in AuthStatuses, h \in HistoryArgs \cup {EmptyHistory} :
          CallSetChatHistory(1, a, h)
    \/ \E a \in AuthStatuses : CallRemoveChatHistory(1, a)
    \/ ResumeSetChatHistoryGet(1)
    \/ ResumeSetChatHistoryUpdate(1)
    \/ BackendServeRead(1)
    \/ BackendApplyWrite

\* the storage when only the anonymous user id matters: none stored (a
\* fresh installation), or one stored by an earlier session
AnonymousUserIDInit ==
    /\ storage = "none"
    /\ disk \in {[k \in Keys |-> IF k = ANONYMOUS_USER_ID_KEY THEN v ELSE NullObj] :
                    v \in {NullObj, [id |-> 0]}}
    /\ pending = << >>
    /\ calls = [c \in Callers |-> IdleCall]
    /\ started = 0
    /\ nfaults = 0
    /\ mIn = NullObj /\ mArg = NullObj /\ mOut = NullObj /\ mCount = 0 /\ mPass = 0
    /\ ChatHistoryUnmounted

\* callers who only call anonymousUserID, their calls free to overlap
NextAnonymousUserID ==
    \/ \E kind \in {"sync", "async"} : setStorage(kind)
    \/ \E c \in Callers : CallAnonymousUserID(c)
    \/ \E c \in Callers : ResumeAnonymousUserIDGet(c)
    \/ \E c \in Callers : ResumeAnonymousUserIDUpdate(c)
    \/ \E c \in Callers : BackendServeRead(c)
    \/ BackendApplyWrite

\* ------------------------------------------------ ChatHistory component
\* The React component ChatHistory (lines 361-480) and, as its environment,
\* the agent it talks to: requests go to the agent in order, its responses
\* come back in order, and its 'chatHistory' messages arrive in order on the
\* webview channel; a response and a message may arrive in either order.

\* a ChatExportResult whose transcript has the given interactions
ChatExportResult(chatID, interactions) ==
    [chatID |-> chatID, transcript |-> [interactions |-> interactions]]

\* lines 455, 458: chat.transcript.interactions.length === 0
isEmptyChat(chat) == Len(chat.transcript.interactions) = 0

\* Array.prototype.find: the position (from 1) of the first element among
\* the positions given, 0 for undefined
first(I) == IF I = {} THEN 0 ELSE CHOOSE i \in I : \A j \in I : i <= j
\* lines 420, 454: chats.find(chat => chat.chatID === chatID)
findChat(list, chatID) == first({i \in DOMAIN list : list[i].chatID = chatID})
\* line 455: chats.find(chat => chat.transcript.interactions.length === 0)
findEmptyChat(list) == first({i \in DOMAIN list : isEmptyChat(list[i])})

\* Array.prototype.findIndex on chat ids: from 0, -1 if there is none
findIndex(list, chatID) == findChat(list, chatID) - 1

\* Math.max
max(a, b) == IF a >= b THEN a ELSE b

\* line 421-424
nextChatIndexToSelectOf(list, chatID) == max(findIndex(list, chatID) - 1, 0)

\* the value of a 'chatHistory' message for a list of chats: an object
\* {chat: {chatID: transcript}}, its entries in insertion order
chatHistoryValue(list) ==
    [chat |-> [i \in DOMAIN list |-> <<list[i].chatID, list[i].transcript>>]]

\* lines 390-394: receivedChats built from Object.entries(message.value.chat)
receivedChatsOf(value) ==
    [i \in DOMAIN value.chat |->
        [chatID |-> value.chat[i][1], transcript |-> value.chat[i][2]]]

\* lines 401-403: the received chats whose id is not in the current chats
newChatsOf(receivedChats, currentChats) ==
    SelectSeq(receivedChats,
              LAMBDA chat : \A i \in DOMAIN currentChats :
                                currentChats[i].chatID /= chat.chatID)

\* a request to the agent, with what the caller keeps for its continuation
Request(method, chatID, nextChatIndexToSelect, activeAtCall) ==
    [method |-> method, chatID |-> chatID,
     nextChatIndexToSelect |-> nextChatIndexToSelect, activeChatID |-> activeAtCall]

IsNewChat(request) == request.method = "chat/new"
\* chats created so far and about to be
Creations == (nextChatID - 1) + Len(SelectSeq(requests, IsNewChat))

\* createChat of the web client: asks the agent for a new chat
createChat == Append(requests, Request("chat/new", NoChatID, 0, NoChatID))
\* selectChat of the web client: the chat becomes the active one
selectChat(chat) == chat.chatID

\* lines 449-469: what createNewChat does, given the `chats` and
\* `activeChatID` of the render it belongs to: nothing, select a chat, or
\* create one
createNewChatDoes(force, seenChats, seenActiveChatID) ==
    LET currentChat == findChat(seenChats, seenActiveChatID)
        emptyChat == findEmptyChat(seenChats)
    IN IF ~force /\ currentChat /= 0 /\ isEmptyChat(seenChats[currentChat])
       THEN [do |-> "nothing", chat |-> 0]
       ELSE IF ~force /\ emptyChat /= 0
       THEN [do |-> "select", chat |-> emptyChat]
       ELSE [do |-> "create", chat |-> 0]

\* the lists of chats the agent may hold when the component is first rendered
InitialAgentChats ==
    { << >>,
      << ChatExportResult(1, <<"q">>) >>,
      << ChatExportResult(1, << >>) >>,
      << ChatExportResult(1, <<"q">>), ChatExportResult(2, << >>) >> }

ChatHistoryInit ==
    /\ chats = << >>
    /\ mounted = FALSE
    /\ agentChats \in InitialAgentChats
    /\ nextChatID = Len(agentChats) + 1
    /\ activeChatID \in {NoChatID} \cup {agentChats[i].chatID : i \in DOMAIN agentChats}
    /\ requests = << >>
    /\ responses = << >>
    /\ messages = << >>
    /\ latest = << >>
    /\ storage = "none"
    /\ disk = [k \in Keys |-> NullObj]
    /\ pending = << >>
    /\ calls = [c \in Callers |-> IdleCall]
    /\ started = 0
    /\ nfaults = 0
    /\ mIn = NullObj /\ mArg = NullObj /\ mOut = NullObj /\ mCount = 0 /\ mPass = 0

\* lines 369-378: the first effect sends 'chat/export'
SendChatExport ==
    /\ ~mounted
    /\ mounted' = TRUE
    /\ requests' = Append(requests, Request("chat/export", NoChatID, 0, NoChatID))
    /\ UNCHANGED <<chats, activeChatID, agentChats, nextChatID, responses, messages,
                   latest, mvars, svars>>

\* lines 417-430: the component's deleteChat up to its await
CallDeleteChat(chat) ==
    /\ mounted
    /\ Len(requests) + Len(responses) < MaxWaiting
    /\ requests' = Append(requests,
          Request("chat/delete", chat.chatID,
                  nextChatIndexToSelectOf(chats, chat.chatID), activeChatID))
    /\ UNCHANGED <<chats, activeChatID, mounted, agentChats, nextChatID, responses,
                   messages, latest, mvars, svars>>

\* lines 449-469, called by the user interface with or without force
createNewChat(force) ==
    LET does == createNewChatDoes(force, chats, activeChatID) IN
    /\ mounted
    /\ does.do = "create" => (Len(requests) < MaxWaiting /\ Creations < MaxChats)
    /\ requests' = IF does.do = "create" THEN createChat ELSE requests
    /\ activeChatID' = IF does.do = "select" THEN selectChat(chats[does.chat])
                       ELSE activeChatID
    /\ UNCHANGED <<chats, mounted, agentChats, nextChatID, responses, messages,
                   latest, mvars, svars>>

\* line 377 (.then(setChats)) and lines 432-446 (deleteChat after its
\* await): the oldest response of the agent is delivered
DeliverResponse ==
    /\ responses /= << >>
    /\ LET r == Head(responses)
           newChatsList == r.result
       IN /\ chats' = newChatsList
          /\ IF r.method = "chat/export" \/ r.chatID /= r.activeChatID
             THEN UNCHANGED <<activeChatID, requests>>
             ELSE IF Len(newChatsList) = 0
             THEN /\ Creations < MaxChats
                  /\ createNewChatDoes(TRUE, chats, r.activeChatID).do = "create"
                  /\ requests' = createChat
                  /\ UNCHANGED activeChatID
             ELSE /\ activeChatID' = selectChat(
                         IF r.nextChatIndexToSelect + 1 \in DOMAIN newChatsList
                         THEN newChatsList[r.nextChatIndexToSelect + 1]
                         ELSE newChatsList[1])
                  /\ UNCHANGED requests
    /\ responses' = Tail(responses)
    /\ UNCHANGED <<mounted, agentChats, nextChatID, messages, latest, mvars, svars>>

\* lines 383-411: the oldest 'chatHistory' message is delivered
onMessage ==
    /\ mounted
    /\ messages /= << >>
    /\ LET message == Head(messages)
       IN IF message.value = NullObj
          THEN UNCHANGED <<chats, activeChatID>>
          ELSE LET receivedChats == receivedChatsOf(message.value)
                   newChats == newChatsOf(receivedChats, chats)
               IN /\ chats' = receivedChats
                  /\ activeChatID' = IF Len(newChats) > 0
                                     THEN newChats[Len(newChats)].chatID
                                     ELSE activeChatID
    /\ messages' = Tail(messages)
    /\ UNCHANGED <<mounted, agentChats, nextChatID, requests, responses, latest,
                   mvars, svars>>

\* the agent handles the oldest request: 'chat/export' answers with its
\* chats, 'chat/delete' removes the chat and answers with the chats left,
\* 'chat/new' adds an empty chat and tells the webview of the new list
AgentHandleRequest ==
    /\ requests /= << >>
    /\ LET r == Head(requests)
           left == SelectSeq(agentChats, LAMBDA chat : chat.chatID /= r.chatID)
           more == Append(agentChats, ChatExportResult(nextChatID, << >>))
           answer(list) ==
               Append(responses,
                      [method |-> r.method, result |-> list, chatID |-> r.chatID,
                       nextChatIndexToSelect |-> r.nextChatIndexToSelect,
                       activeChatID |-> r.activeChatID])
       IN IF r.method = "chat/export"
          THEN /\ responses' = answer(agentChats)
               /\ UNCHANGED <<agentChats, nextChatID, messages, latest>>
          ELSE IF r.method = "chat/delete"
          THEN /\ agentChats' = left
               /\ responses' = answer(left)
               /\ latest' = << left >>
               /\ UNCHANGED <<nextChatID, messages>>
          ELSE /\ agentChats' = more
               /\ nextChatID' = nextChatID + 1
               /\ messages' = Append(messages,
                                 [type |-> "chatHistory", value |-> chatHistoryValue(more)])
               /\ latest' = << more >>
               /\ UNCHANGED responses
    /\ requests' = Tail(requests)
    /\ UNCHANGED <<chats, activeChatID, mounted, mvars, svars>>

\* the user sends a first message in chat i of the agent: the chat is no
\* longer empty and the agent tells the webview of the new list
AgentAddInteraction(i) ==
    /\ i \in DOMAIN agentChats
    /\ isEmptyChat(agentChats[i])
    /\ Len(messages) < MaxWaiting
    /\ LET changed == [agentChats EXCEPT ![i] = ChatExportResult(@.chatID, <<"q">>)]
       IN /\ agentChats' = changed
          /\ messages' = Append(messages,
                            [type |-> "chatHistory", value |-> chatHistoryValue(changed)])
          /\ latest' = << changed >>
    /\ UNCHANGED <<chats, activeChatID, mounted, nextChatID, requests, responses,
                   mvars, svars>>

\* the agent sends a 'chatHistory' message without a history
AgentSendNoHistory ==
    /\ Len(messages) < MaxWaiting
    /\ messages' = Append(messages, [type |-> "chatHistory", value |-> NullObj])
    /\ UNCHANGED <<chats, activeChatID, mounted, agentChats, nextChatID, requests,
                   responses, latest, mvars, svars>>

\* the component with every operation it offers
NextChatHistory ==
    \/ SendChatExport
    \/ \E i \in DOMAIN chats : CallDeleteChat(chats[i])
    \/ \E force \in BOOLEAN : createNewChat(force)
    \/ DeliverResponse
    \/ onMessage
    \/ AgentHandleRequest
    \/ \E i \in DOMAIN agentChats : AgentAddInteraction(i)
    \/ AgentSendNoHistory

\* the component when chats are created by createNewChat without force only
NextNewChat ==
    \/ SendChatExport
    \/ createNewChat(FALSE)
    \/ DeliverResponse
    \/ onMessage
    \/ AgentHandleRequest
    \/ \E i \in DOMAIN agentChats : AgentAddInteraction(i)

\* two callers who call getChatHistory and setChatHistory, their calls free to
\* overlap
NextGetAndSet ==
    \/ \E kind \in {"sync", "async"} : setStorage(kind)
    \/ \E c \in Callers, a \in AuthStatuses : CallGetChatHistory(c, a)
    \/ \E c \in Callers, a \in AuthStatuses, h \in HistoryArgs : CallSetChatHistory(c, a, h)
    \/ \E c \in Callers : ResumeGetChatHistory(c)
    \/ \E c \in Callers : ResumeSetChatHistoryGet(c)
    \/ \E c \in Callers : ResumeSetChatHistoryUpdate(c)
    \/ \E c \in Callers : BackendServeRead(c)
    \/ BackendApplyWrite

Spec == StorageInit /\ [][Next]_vars
SpecGetAndSet == StorageInit /\ [][NextGetAndSet]_vars
SpecChatHistory == ChatHistoryInit /\ [][NextChatHistory]_vars
SpecNewChat == ChatHistoryInit /\ [][NextNewChat]_vars
SpecAnonymousUserID == AnonymousUserIDInit /\ [][NextAnonymousUserID]_vars
SpecSetOrRemove == StorageInit /\ [][NextSetOrRemove]_vars
SpecEnrollment == EnrollmentInit /\ [][NextEnrollment]_vars
SpecAccountKeys == StorageInit /\ [][NextAccountKeys]_vars
SpecSequential == StorageInit /\ [][NextSequential]_vars
SpecConcurrentSet == StorageInit /\ [][NextConcurrentSet]_vars

\* ------------------------------------------------ claims: migration
\* C1: migration is idempotent: applied to a store that a migration pass
\* returned, migrateHistoryForChatModelProperty returns the very same
\* reference (hence also an equal value).
C1_MigrationIdempotent ==
    mPass >= 2 => mOut = mArg

\* C2: in the store returned by migration every assistant message that is
\* present has a non-empty `model`.
C2_ModelNonEmpty ==
    (mPass >= 1 /\ TruthyObj(mOut) /\ mOut /= TypeError) =>
        \A p \in AssistantPlaces(mOut) : Truthy(AssistantAt(mOut, p).model)

\* C3: after a pass that returned, every assistant message that had no `model` set (absent
\* or empty) has as `model` its transcript's chatModel when that is present,
\* else "unknown"; and the counter neededMigration equals the number of
\* assistant messages the pass replaced, which are exactly those.
C3_ModelFromChatModelAndCount ==
    (mPass >= 1 /\ TruthyObj(mArg) /\ mOut /= TypeError) =>
        /\ \A p \in AssistantPlaces(mArg) :
              ~Truthy(AssistantAt(mArg, p).model) =>
                  AssistantAt(mOut, p).model =
                      IF ChatModelAt(mArg, p) /= Undefined
                      THEN ChatModelAt(mArg, p) ELSE "unknown"
        /\ mCount = Cardinality({p \in AssistantPlaces(mArg) :
                                    AssistantAt(mOut, p) /= AssistantAt(mArg, p)})
        /\ mCount = Cardinality({p \in AssistantPlaces(mArg) :
                                    ~Truthy(AssistantAt(mArg, p).model)})

\* C3 witness: one message without `model` in a transcript with chatModel
\* "gpt-4" came out with model "gpt-4", the counter at 1.
C3_Witness ==
    /\ mPass = 1 /\ TruthyObj(mArg) /\ mCount = 1
    /\ \E p \in AssistantPlaces(mArg) :
          /\ AssistantAt(mArg, p).model = Undefined
          /\ ChatModelAt(mArg, p) = "gpt-4"
          /\ AssistantAt(mOut, p).model = "gpt-4"

\* C4: a pass that returns, returns every assistant message that already had a non-empty
\* `model` as the same object, unchanged.
C4_MigratedMessageKept ==
    (mPass >= 1 /\ TruthyObj(mArg) /\ mOut /= TypeError) =>
        \A p \in AssistantPlaces(mArg) :
            Truthy(AssistantAt(mArg, p).model) =>
                AssistantAt(mOut, p) = AssistantAt(mArg, p)

\* C4 witness: a pass that migrated some message kept another one, which had
\* its model, as it was.
C4_Witness ==
    /\ mPass = 1 /\ TruthyObj(mArg) /\ mCount >= 1
    /\ \E p \in AssistantPlaces(mArg) :
          /\ Truthy(AssistantAt(mArg, p).model)
          /\ AssistantAt(mOut, p) = AssistantAt(mArg, p)

\* ---------------------------------------------- claims: LocalStorage
Done(c) == calls[c].pc = "done"
\* the account entries of a stored history (none when there is no store)
Entries(h) == IF TruthyObj(h) /\ "accts" \in DOMAIN h THEN h.accts ELSE << >>
StoredHistory == disk[KEY_LOCAL_HISTORY]
\* what the backend would hold for the store h once migrated
MigratedStore(h) == Stored(migrateHistoryForChatModelProperty(h, ReadRef + 1))
\* some assistant message of the store has no `model` (absent or empty)
LacksModel(h) ==
    TruthyObj(h) /\ \E p \in AssistantPlaces(h) : ~Truthy(AssistantAt(h, p).model)
\* caller c's call has run to its end with no other call or write in between
\* and every write it issued has been applied or rejected
RanAlone(c) == Done(c) /\ calls[c].alone /\ pending = << >>
HistoryMutators == {"setChatHistory", "deleteChatHistory", "removeChatHistory"}

\* C5: a setChatHistory, deleteChatHistory or removeChatHistory on account A
\* that ran alone leaves the stored history of every other account B exactly
\* as it was, when A and B were both in the store.
C5_OtherAccountUntouched ==
    \A c \in Callers :
        (RanAlone(c) /\ calls[c].op \in HistoryMutators) =>
            LET A == getKeyForAuthStatus(calls[c].auth)
                before == Entries(calls[c].before)
            IN \A B \in DOMAIN before \ {A} :
                  A \in DOMAIN before =>
                      /\ B \in DOMAIN Entries(StoredHistory)
                      /\ Entries(StoredHistory)[B] = before[B]

\* C5 as amended: setChatHistory and removeChatHistory leave B's stored
\* history exactly as it was; deleteChatHistory leaves it as it was or in its
\* migrated form, and exactly as it was when no message of the store lacked
\* a model.
C5_OtherAccountKeptOrMigrated ==
    \A c \in Callers :
        (RanAlone(c) /\ calls[c].op \in HistoryMutators) =>
            LET A == getKeyForAuthStatus(calls[c].auth)
                before == Entries(calls[c].before)
                migrated == Entries(MigratedStore(calls[c].before))
            IN \A B \in DOMAIN before \ {A} :
                  A \in DOMAIN before =>
                      /\ B \in DOMAIN Entries(StoredHistory)
                      /\ IF /\ calls[c].op = "deleteChatHistory"
                            /\ LacksModel(calls[c].before)
                            /\ MigratedStore(calls[c].before) /= TypeError
                         THEN Entries(StoredHistory)[B] \in {before[B], migrated[B]}
                         ELSE Entries(StoredHistory)[B] = before[B]

\* C5 witness: a deleteChatHistory on A that ran alone left B's stored
\* history in its migrated form, different from what it was.
C5_Witness ==
    \E c \in Callers :
        /\ RanAlone(c) /\ calls[c].op = "deleteChatHistory"
        /\ LET A == getKeyForAuthStatus(calls[c].auth)
               before == Entries(calls[c].before)
           IN \E B \in DOMAIN before \ {A} :
                 /\ A \in DOMAIN before
                 /\ B \in DOMAIN Entries(StoredHistory)
                 /\ Entries(StoredHistory)[B] /= before[B]
                 /\ Entries(StoredHistory)[B] = Entries(MigratedStore(calls[c].before))[B]

\* a deleteChatHistory that ran alone, on an initialized storage whose
\* backend calls all succeeded, the migration of the store not throwing
DeletedAlone(c) ==
    /\ RanAlone(c) /\ calls[c].op = "deleteChatHistory"
    /\ calls[c].init /\ calls[c].faults = {} /\ calls[c].error /= "TypeError"

C8_WriteBackIffMigrated ==
    \A c \in Callers :
        (/\ Done(c) /\ calls[c].op = "getChatHistory" /\ calls[c].history /= UndefObj
         /\ calls[c].error /= "TypeError") =>
            calls[c].writes =
                IF LacksModel(calls[c].history)
                THEN << [key |-> KEY_LOCAL_HISTORY, value |-> MigratedStore(calls[c].history)] >>
                ELSE << >>

\* C8 witness: a getChatHistory that read a store with a legacy message and
\* issued its one write.
C8_Witness ==
    \E c \in Callers :
        /\ Done(c) /\ calls[c].op = "getChatHistory" /\ calls[c].outcome = "resolved"
        /\ LacksModel(calls[c].history)
        /\ Len(calls[c].writes) = 1

\* C9: whenever a backend call fails during setChatHistory, the error is
\* caught and logged inside setChatHistory and the call resolves normally.
C9_SetHistoryCatchesEveryFailure ==
    \A c \in Callers :
        (Done(c) /\ calls[c].op = "setChatHistory" /\ calls[c].faults /= {}) =>
            /\ calls[c].outcome = "resolved"
            /\ calls[c].logged = Cardinality(calls[c].faults)

\* C10: every public operation called before setStorage fails with the error
\* 'LocalStorage not initialized'.
C10_FailsBeforeInitialized ==
    \A c \in Callers :
        (Done(c) /\ ~calls[c].init) =>
            /\ calls[c].outcome \in {"rejected", "threw"}
            /\ calls[c].error = "NotInitialized"

\* --------------------------------------------- claims: concurrent callers
\* callers c and d each ran setChatHistory to its end, every backend call
\* succeeding, and both read the same store: neither saw the other's write
RacedSets(c, d) ==
    /\ c /= d /\ Done(c) /\ Done(d) /\ pending = << >>
    /\ \A e \in {c, d} : /\ calls[e].op = "setChatHistory" /\ calls[e].init
                          /\ calls[e].faults = {} /\ Len(calls[e].writes) = 1
    /\ calls[c].fullHistory = calls[d].fullHistory

\* C11: when two setChatHistory calls overlap so that both read the store
\* before either writes, the store that remains is the store they read with
\* the entry of one call only, the later writer: the other call's entry is
\* as it was read (or still missing), its change dropped.
C11_LaterWriteWins ==
    \A c, d \in Callers :
        RacedSets(c, d) =>
            \E w \in {c, d} :
                Entries(StoredHistory) =
                    (getKeyForAuthStatus(calls[w].auth) :> StoredPartition(calls[w].arg))
                        @@ Entries(calls[w].fullHistory)

\* C11 witness: two overlapping setChatHistory calls for different accounts
\* have ended and the store holds the change of one of them only.
C11_Witness ==
    \E c, d \in Callers :
        /\ RacedSets(c, d)
        /\ LET K == getKeyForAuthStatus(calls[c].auth)
           IN /\ K /= getKeyForAuthStatus(calls[d].auth)
              /\ StoredPartition(calls[c].arg) /= StoredPartition(calls[d].arg)
              /\ \/ K \notin DOMAIN Entries(StoredHistory)
                 \/ Entries(StoredHistory)[K] /= StoredPartition(calls[c].arg)
              /\ Entries(StoredHistory)[getKeyForAuthStatus(calls[d].auth)]
                    = StoredPartition(calls[d].arg)

\* ------------------------------------------------ claims: one caller
\* caller c's call, ended, came right after its call of `op` on the same
\* account, which it had awaited; no backend call has failed
AwaitedBefore(c, op) ==
    /\ Done(c) /\ calls[c].op = "getChatHistory" /\ calls[c].init
    /\ calls[c].outcome = "resolved" /\ nfaults = 0
    /\ calls[c].prev.op = op /\ calls[c].prev.init
    /\ calls[c].prev.outcome = "resolved"
    /\ calls[c].prev.auth = calls[c].auth

\* caller c's getChatHistory, ended, came right after a setChatHistory it had
\* awaited, for whatever account
GotAfterSet(c) ==
    /\ Done(c) /\ calls[c].op = "getChatHistory" /\ calls[c].init
    /\ calls[c].outcome = "resolved" /\ nfaults = 0
    /\ calls[c].prev.op = "setChatHistory" /\ calls[c].prev.init
    /\ calls[c].prev.outcome = "resolved"

\* C12: a getChatHistory(A) made after an awaited setChatHistory(A, h)
\* returns h in migrated form, and one made after an awaited
\* deleteChatHistory(A, X) returns a history without X, whatever the backend.
C12_ReadYourWrites ==
    \A c \in Callers :
        /\ AwaitedBefore(c, "setChatHistory") =>
              StoredPartition(calls[c].result) =
                  StoredPartition(migrateUserLocalHistory(calls[c].prev.arg, ReadRef))
        /\ AwaitedBefore(c, "deleteChatHistory") =>
              (TruthyObj(calls[c].result.chat) =>
                  calls[c].prev.chatID \notin DOMAIN calls[c].result.chat)

\* the write caller c's call issued last
LastWrite(c) == calls[c].writes[Len(calls[c].writes)]
\* caller c's call awaits the promise the adapter's update returned, which is
\* already resolved
UpdateResolved(c) == calls[c].pc \in {"sch.update", "kv.update"}

\* C13: when the promise returned by the adapter's update resolves, the
\* backend's update has been called with that key and value: a synchronous
\* backend already holds the value (unless its update returned a rejecting
\* promise), an asynchronous one holds it or has the write in flight (unless
\* it rejected it).
C13_UpdateIssuedBeforeResolved ==
    \A c \in Callers :
        UpdateResolved(c) =>
            /\ Len(calls[c].writes) >= 1
            /\ \/ "update.rejects" \in calls[c].faults
               \/ disk[LastWrite(c).key] = LastWrite(c).value
               \/ /\ storage = "async"
                  /\ \E i \in DOMAIN pending :
                        pending[i] = [key |-> LastWrite(c).key,
                                      value |-> LastWrite(c).value,
                                      caller |-> calls[c].id]

\* C13 witness: setChatHistory awaits the resolved promise of its update on a
\* synchronous backend, which already holds the store written, different
\* from the store before the call.
C13_Witness ==
    \E c \in Callers :
        /\ calls[c].pc = "sch.update" /\ storage = "sync" /\ calls[c].faults = {}
        /\ disk[KEY_LOCAL_HISTORY] = LastWrite(c).value
        /\ disk[KEY_LOCAL_HISTORY] /= calls[c].before

\* C14: two accounts that differ in endpoint or username have different
\* keys: a getChatHistory for one account, made after an awaited
\* setChatHistory for another, reads a partition other than the one written.
C14_AccountKeyUnique ==
    \A c \in Callers :
        (GotAfterSet(c) /\ calls[c].prev.auth /= calls[c].auth) =>
            getKeyForAuthStatus(calls[c].prev.auth) /= getKeyForAuthStatus(calls[c].auth)

\* ------------------------------------------- claims: malformed records
\* C15: migrateHistoryForChatModelProperty completes with a value on every
\* store, also one where a partition lacks `chat`, a transcript is absent or
\* lacks `interactions`, or an interaction lacks its assistant message.
C15_MigrationNeverThrows ==
    mPass >= 1 => mOut /= TypeError

\* the transcript `out` is the transcript `in` but for its assistant
\* messages: same metadata, as many interactions in the same order, the same
\* human messages, an assistant message (with the same text) exactly where
\* there was one
SameButModels(in, out) ==
    IF ~TruthyObj(in) THEN out = in
    ELSE /\ out.chatModel = in.chatModel
         /\ DOMAIN out.interactions = DOMAIN in.interactions
         /\ \A k \in DOMAIN in.interactions :
               LET i == in.interactions[k]
                   o == out.interactions[k]
               IN /\ o.humanMessage = i.humanMessage
                  /\ TruthyObj(o.assistantMessage) = TruthyObj(i.assistantMessage)
                  /\ TruthyObj(i.assistantMessage) =>
                        o.assistantMessage.text = i.assistantMessage.text

\* C18: a pass that returns keeps the account keys, every field of a
\* partition other than `chat`, the chat ids of each account, and each
\* transcript but for the models of its assistant messages; a partition
\* without `chat` comes out without chats.
C18_MigrationLosesNothing ==
    (mPass >= 1 /\ TruthyObj(mArg) /\ mOut /= TypeError) =>
        /\ DOMAIN mOut.accts = DOMAIN mArg.accts
        /\ \A a \in DOMAIN mArg.accts :
              LET in == mArg.accts[a]
                  out == mOut.accts[a]
              IN /\ \A f \in DOMAIN in \ {"chat"} : f \in DOMAIN out /\ out[f] = in[f]
                 /\ IF TruthyObj(in.chat)
                    THEN /\ DOMAIN out.chat = DOMAIN in.chat
                         /\ \A id \in DOMAIN in.chat :
                               SameButModels(in.chat[id], out.chat[id])
                    ELSE ~TruthyObj(out.chat) \/ DOMAIN out.chat = {}

\* ------------------------------------------- claims: backend failures
\* C16: a getChatHistory whose backend read failed (threw or rejected)
\* resolves with the empty history {chat: {}}.
C16_ReadFailureGivesEmptyHistory ==
    \A c \in Callers :
        (/\ Done(c) /\ calls[c].op = "getChatHistory" /\ calls[c].init
         /\ calls[c].faults \cap {"get.throws", "get.rejects"} /= {}) =>
            /\ calls[c].outcome = "resolved"
            /\ calls[c].result = EmptyHistory

\* C19: a getChatHistory whose migration write-back failed (the backend's
\* update threw, or rejected) still resolves, with the migrated history of
\* the account asked for.
C19_WriteBackFailureNotPropagated ==
    \A c \in Callers :
        (/\ Done(c) /\ calls[c].op = "getChatHistory" /\ calls[c].init
         /\ calls[c].faults \cap {"update.throws", "update.rejects"} /= {}) =>
            /\ calls[c].outcome = "resolved"
            /\ calls[c].result =
                  accountHistoryOf(migrateRead(calls[c].history),
                                   getKeyForAuthStatus(calls[c].auth))

\* --------------------------------------------- claims: removeChatHistory
\* What a call of setChatHistory(account, h) does, from its first statement
\* to its end: it resolves with nothing, whatever happens; it reads the store
\* once and, the read succeeding, calls update once, with the store it read
\* where the account's entry is h; it logs one error when the storage is not
\* initialized or the read or the update call failed; run alone on a working
\* backend it leaves the store as it was but for the account's entry, h.
BehavesAsSetChatHistory(c, h) ==
    LET call == calls[c]
        key == getKeyForAuthStatus(call.auth)
        readFailed == call.faults \cap {"get.throws", "get.rejects"} /= {}
    IN /\ call.outcome = "resolved" /\ call.result = UndefObj
       /\ IF ~call.init \/ readFailed
          THEN call.writes = << >> /\ call.logged = 1
          ELSE /\ Len(call.writes) = 1
               /\ call.writes[1].key = KEY_LOCAL_HISTORY
               /\ Entries(call.writes[1].value) =
                     (key :> StoredPartition(h)) @@ Entries(call.fullHistory)
               /\ call.logged = IF "update.throws" \in call.faults THEN 1 ELSE 0
       /\ (RanAlone(c) /\ call.init /\ call.faults = {}) =>
              Entries(StoredHistory) = (key :> StoredPartition(h)) @@ Entries(call.before)

\* C17: removeChatHistory(account) does what setChatHistory(account,
\* {chat: {}}) does: the same backend calls, the same store left, the same
\* outcome when the backend fails or the storage is not initialized.
C17_RemoveIsSetEmpty ==
    \A c \in Callers :
        /\ (Done(c) /\ calls[c].op = "removeChatHistory") =>
               BehavesAsSetChatHistory(c, EmptyHistory)
        /\ (Done(c) /\ calls[c].op = "setChatHistory") =>
               BehavesAsSetChatHistory(c, calls[c].arg)

\* C17 witness: a removeChatHistory that ran alone left the account's entry,
\* which had chats, the empty history, and another account's entry in place.
C17_Witness ==
    \E c \in Callers :
        /\ RanAlone(c) /\ calls[c].op = "removeChatHistory"
        /\ calls[c].init /\ calls[c].faults = {}
        /\ LET A == getKeyForAuthStatus(calls[c].auth)
               before == Entries(calls[c].before)
           IN /\ A \in DOMAIN before /\ before[A] /= EmptyHistory
              /\ Entries(StoredHistory)[A] = EmptyHistory
              /\ \E B \in DOMAIN before \ {A} : Entries(StoredHistory)[B] = before[B]

\* ---------------------------------------- claims: getEnrollmentHistory
EnrollmentAnswered(c) ==
    /\ Done(c) /\ calls[c].op = "getEnrollmentHistory" /\ calls[c].outcome = "resolved"

\* C20: for a feature, getEnrollmentHistory answers false to one call at
\* most: two calls for the same feature never both get false, whether they
\* overlap or one follows the other.
C20_FirstEnrollmentOnce ==
    /\ \A c, d \in Callers :
          (/\ c /= d /\ EnrollmentAnswered(c) /\ EnrollmentAnswered(d)
           /\ calls[c].arg = calls[d].arg) =>
              ~(calls[c].result.value = FALSE /\ calls[d].result.value = FALSE)
    /\ \A c \in Callers :
          (/\ EnrollmentAnswered(c)
           /\ calls[c].prev.op = "getEnrollmentHistory"
           /\ calls[c].prev.outcome = "resolved"
           /\ calls[c].prev.arg = calls[c].arg) =>
              calls[c].result.value = TRUE

\* --------------------------------------------- claims: anonymousUserID
UserIDAnswered(c) ==
    /\ Done(c) /\ calls[c].op = "anonymousUserID" /\ calls[c].outcome = "resolved"

\* C21: at most one call of anonymousUserID reports created = true (two
\* calls never both do, and a call made after another has answered does
\* not), and once every write is applied each call's answer is the
\* identifier stored.
C21_OneAnonymousUserID ==
    /\ \A c, d \in Callers :
          (c /= d /\ UserIDAnswered(c) /\ UserIDAnswered(d)) =>
              ~(calls[c].result.created /\ calls[d].result.created)
    /\ \A c \in Callers :
          (/\ UserIDAnswered(c)
           /\ calls[c].prev.op = "anonymousUserID"
           /\ calls[c].prev.outcome = "resolved") =>
              ~calls[c].result.created
    /\ \A c \in Callers :
          (UserIDAnswered(c) /\ pending = << >>) =>
              calls[c].result.anonymousUserID = disk[ANONYMOUS_USER_ID_KEY]

\* a getChatHistory made by a caller whose call before was a getChatHistory
\* that returned, with every write applied and no backend fault: the store it
\* reads is the one the earlier call left, migrated and written back
ReadsMigratedStore(c) ==
    /\ Done(c) /\ calls[c].op = "getChatHistory" /\ calls[c].outcome = "resolved"
    /\ calls[c].alone /\ nfaults = 0
    /\ calls[c].prev.op = "getChatHistory" /\ calls[c].prev.outcome = "resolved"
    /\ \E h \in InitialStores :
          /\ LacksModel(h) /\ MigratedStore(h) /= TypeError
          /\ calls[c].before = MigratedStore(h)

\* C22: a store is migrated once: a getChatHistory that follows a
\* getChatHistory which migrated the store and whose write-back is applied,
\* with no setChatHistory in between, reads a store with nothing to migrate,
\* calls no update and returns the stored entry of the account as it is.
C22_MigratedOnce ==
    \A c \in Callers :
        ReadsMigratedStore(c) =>
            /\ calls[c].history = calls[c].before
            /\ ~LacksModel(calls[c].history)
            /\ calls[c].writes = << >>
            /\ calls[c].result =
                  accountHistoryOf(calls[c].history, getKeyForAuthStatus(calls[c].auth))

\* the store `out` is the store `in` but for the models of assistant
\* messages: the same accounts, the same fields and chats in each (an
\* account without `chat` may come out with no chats), and in each chat the
\* same transcript (SameButModels)
StoreSameButModels(in, out) ==
    IF ~(TruthyObj(in) /\ TruthyObj(out)) THEN out = in
    ELSE /\ DOMAIN out.accts = DOMAIN in.accts
         /\ \A a \in DOMAIN in.accts :
               LET i == in.accts[a]
                   o == out.accts[a]
               IN /\ DOMAIN o = DOMAIN i
                  /\ \A f \in DOMAIN i \ {"chat"} : o[f] = i[f]
                  /\ IF ~TruthyObj(i.chat)
                     THEN ~TruthyObj(o.chat) \/ DOMAIN o.chat = {}
                     ELSE /\ TruthyObj(o.chat)
                          /\ DOMAIN o.chat = DOMAIN i.chat
                          /\ \A id \in DOMAIN i.chat :
                                IF /\ TruthyObj(i.chat[id]) /\ HasInteractions(i.chat[id])
                                   /\ TruthyObj(o.chat[id]) /\ HasInteractions(o.chat[id])
                                THEN SameButModels(i.chat[id], o.chat[id])
                                ELSE o.chat[id] = i.chat[id]

\* this step stores the write-back of caller c's getChatHistory: at once on
\* a synchronous backend, when the backend applies it on an asynchronous one
WriteBackStored(c) ==
    /\ calls[c].op = "getChatHistory"
    /\ disk'[KEY_LOCAL_HISTORY] /= disk[KEY_LOCAL_HISTORY]
    /\ \/ /\ storage = "sync"
          /\ calls[c].pc = "gch.get" /\ calls'[c].pc = "done"
       \/ /\ storage = "async"
          /\ pending /= << >> /\ pending' = Tail(pending)
          /\ Head(pending).caller = calls[c].id

\* C23: whatever the interleaving of getChatHistory with setChatHistory, the
\* step that stores a getChatHistory's write-back changes the store only by
\* adding models: every account entry and chat the store held just before,
\* a concurrent setChatHistory's included, is still there with its content.
C23_WriteBackKeepsContent ==
    [][\A c \in Callers :
          WriteBackStored(c) =>
              StoreSameButModels(disk[KEY_LOCAL_HISTORY], disk'[KEY_LOCAL_HISTORY])]_vars

\* ------------------------------------------- claims: ChatHistory component
\* every request, response and message has been handled or delivered
AllDelivered ==
    mounted /\ requests = << >> /\ responses = << >> /\ messages = << >>

\* C24: once every response and message in flight has been delivered, the
\* component's `chats` is the list carried by the agent's latest chat-list
\* update (a 'chatHistory' message or a 'chat/delete' response); in
\* particular not the older result of the first 'chat/export'.
C24_ChatsTrackLatestUpdate ==
    (AllDelivered /\ latest /= << >>) => chats = latest[1]

\* the empty chats of a list
EmptyChats(list) == {i \in DOMAIN list : isEmptyChat(list[i])}
\* this step sends a 'chat/new' request
SendsNewChat == Len(SelectSeq(requests', IsNewChat)) > Len(SelectSeq(requests, IsNewChat))
\* this step is a call of createNewChat that selects a chat
SelectsChat ==
    activeChatID' /= activeChatID /\ messages' = messages /\ responses' = responses

\* C25: createNewChat without force asks for a new chat only when the
\* component's chats hold no empty chat, selects an empty chat of the list
\* when it selects, and so the agent's list of chats never holds two empty
\* chats, also when createNewChat is called again before the list shows the
\* chat created before.
C25_NoSecondEmptyChat ==
    [][/\ SendsNewChat => EmptyChats(chats) = {}
       /\ SelectsChat =>
             \E i \in EmptyChats(chats) : chats[i].chatID = activeChatID'
       /\ Cardinality(EmptyChats(agentChats')) <= 1]_vars
====
